---- MODULE Spec2Model ----
(***************************************************************************)
(* Model of the bleve engine facade of jsteenb2/search: Engine / Index     *)
(* (NewEngine, Engine.Index, Engine.Indices, Index.Index, Index.Search),   *)
(* the query compiler convertQuery and the result normalizer               *)
(* convertSearchResult / convertExplanation.                               *)
(*                                                                         *)
(* A Go pointer or interface that may be nil is a sequence of length at    *)
(* most one: None is nil, Some(x) is a non-nil reference to x.             *)
(***************************************************************************)
EXTENDS Integers, Sequences, FiniteSets, TLC

VARIABLES
    engineState,  \* "none" before NewEngine, then "ok" or "failed"
    newArgs,      \* the arguments NewEngine was called with
    indices,      \* Engine.indices: name -> underlying bleve index
    newErr,       \* the error NewEngine returned
    opened,       \* positions of append(rest, index) on which Setup ran
    docs,         \* underlying index -> ids of the documents it holds
    handles,      \* the *Index objects Engine.Index and Engine.Indices returned
    listed,       \* the handles returned by the last Engine.Indices()
    calls,        \* per caller: the Index.Index / Index.Search call in progress
    aborted,      \* TRUE once a panic escaped a call (the process is gone)
    arg,          \* argument of the function a function specification applies
    ret           \* what the function returned for arg

vars == <<engineState, newArgs, indices, newErr, opened, docs, handles,
          listed, calls, aborted, arg, ret>>

facadeVars == <<engineState, newArgs, indices, newErr, opened, docs, handles,
                listed, calls, aborted>>

(***************************************************************************)
(* Bounds                                                                  *)
(***************************************************************************)
MaxRest == 2
MaxInitRest == 1
MaxNest == 2
MaxHits == 2
MaxNodes == 4
MaxRanked == 2
MaxSeed == 11
MaxBoost == 1
MaxClauses == 2

None == <<>>
Some(x) == <<x>>

Names == {"base", "other"}
DocIDs == {"d1"}
Callers == {"c1", "c2"}

Min2(a, b) == IF a < b THEN a ELSE b

Perms(S) == {f \in [1..Cardinality(S) -> S] : \A i, j \in 1..Cardinality(S) : f[i] = f[j] => i = j}

(***************************************************************************)
(* Errors: a kind and the message text                                     *)
(***************************************************************************)
SetupErr(cfg) == [kind |-> "open", text |-> <<"cannot create index", cfg.Name>>]

\* fmt.Errorf("...%q" + name) has no argument for %q
NoSuchIndexErr(name) == [kind |-> "unknown index", text |-> <<"index does not exist for this engine: %!q(MISSING)", name>>]

NoResultsErr == [kind |-> "no results", text |-> <<"no results for provided query">>]

ValidationErr == [kind |-> "invalid query", text |-> <<"request failed validation">>]

EngineErrs == {[kind |-> "engine", text |-> <<"io">>], [kind |-> "engine", text |-> <<"corrupt">>]}

(***************************************************************************)
(* Query model: QueryType and QueryPlan                                    *)
(***************************************************************************)
QueryTypeUnknown == 0
QueryTypeBoolean == 1
QueryTypeBoolField == 2
QueryTypeDateRange == 3
QueryTypeIDs == 4
QueryTypeMatch == 5
QueryTypeMatchAll == 6
QueryTypeMatchNone == 7
QueryTypeMatchPhrase == 8
QueryTypeMultiPhrase == 9
QueryTypeNumericRange == 10
QueryTypePrefix == 11
QueryTypeString == 12
QueryTypeTerm == 13
QueryTypeTermRange == 14
QueryTypeWildcard == 15

\* QueryOperator
MatchQueryOperatorOr == 0
MatchQueryOperatorAnd == 1

queryTypes == <<"unknown", "boolean", "bool field", "date range", "ids", "match", "match all", "match none", "match phrase", "multi phrase", "numeric range", "prefix", "string", "term", "term range", "wildcard">>

\* QueryType.String; queryTypes[q] with q < 0 is an index out of range
QueryTypeName(t) ==
    IF t >= Len(queryTypes) THEN <<"unknown query type">>
    ELSE IF t < 0 THEN <<"index out of range">>
    ELSE <<queryTypes[t + 1], " query type">>

\* the zero value of QueryPlan with the given Type
QueryPlan(t) ==
    [Type |-> t, Should |-> <<>>, Must |-> <<>>, MustNot |-> <<>>,
     Analyzer |-> "", BoostVal |-> None, FieldVal |-> "",
     Bool |-> FALSE, Matches |-> <<>>, Fuzziness |-> 0, Operator |-> 0,
     Prefix |-> 0, Terms |-> <<>>, Min |-> None, Max |-> None,
     InclusiveMin |-> FALSE, InclusiveMax |-> FALSE]

\* Bound is interface{}: nil, or a value with its dynamic type
BoundString(b) == IF b # None /\ b[1].type = "string" THEN b[1].v ELSE ""

BoundDate(b) == IF b # None /\ b[1].type = "time" THEN b[1].v ELSE 0

\* NullFloat64 of a bound: valid only when the bound holds a valid NullFloat64
BoundNullFloat64(b) ==
    IF b # None /\ b[1].type = "nullfloat64" THEN b[1].v ELSE [Float64 |-> 0, Valid |-> FALSE]

(***************************************************************************)
(* Query builders: a variant is a record of its struct's fields            *)
(***************************************************************************)
NewQueryBoolField(b) == [variant |-> "BoolField", Bool |-> b, BoostVal |-> None, FieldVal |-> ""]

QueryBoolFieldQueryPlan(q) ==
    [QueryPlan(QueryTypeBoolField) EXCEPT !.Bool = q.Bool, !.BoostVal = q.BoostVal, !.FieldVal = q.FieldVal]

NewQueryBoolean == [variant |-> "Boolean", Should |-> <<>>, Must |-> <<>>, MustNot |-> <<>>, BoostVal |-> None]

QueryBooleanQueryPlan(q) ==
    [QueryPlan(QueryTypeBoolean) EXCEPT !.Should = q.Should, !.Must = q.Must, !.MustNot = q.MustNot,
                                         !.BoostVal = q.BoostVal]

AddMust(q, musts) == [q EXCEPT !.Must = @ \o musts]

AddMustNot(q, nots) == [q EXCEPT !.MustNot = @ \o nots]

AddShould(q, shoulds) == [q EXCEPT !.Should = @ \o shoulds]

NewQueryIDs(ids) == [variant |-> "IDs", IDs |-> ids, BoostVal |-> None]

QueryIDsQueryPlan(q) == [QueryPlan(QueryTypeIDs) EXCEPT !.Matches = q.IDs, !.BoostVal = q.BoostVal]

NewQueryMatch(match) ==
    [variant |-> "Match", Match |-> match, Analyzer |-> "", BoostVal |-> None, FieldVal |-> "",
     Prefix |-> 0, Fuzziness |-> 0, Operator |-> 0]

QueryMatchQueryPlan(q) ==
    [QueryPlan(QueryTypeMatch) EXCEPT !.Matches = <<q.Match>>, !.Analyzer = q.Analyzer, !.BoostVal = q.BoostVal,
                                       !.FieldVal = q.FieldVal, !.Prefix = q.Prefix, !.Fuzziness = q.Fuzziness,
                                       !.Operator = q.Operator]

NewQueryMatchAll == [variant |-> "MatchAll", BoostVal |-> None]

\* the plan names the type and nothing else
QueryMatchAllQueryPlan(q) == QueryPlan(QueryTypeMatchAll)

NewQueryMatchNone == [variant |-> "MatchNone", BoostVal |-> None]

QueryMatchNoneQueryPlan(q) == QueryPlan(QueryTypeMatchNone)

NewQueryMatchPhrase(phrase) ==
    [variant |-> "MatchPhrase", MatchPhrase |-> phrase, FieldVal |-> "", Analyzer |-> "", BoostVal |-> None]

QueryMatchPhraseQueryPlan(q) ==
    [QueryPlan(QueryTypeMatchPhrase) EXCEPT !.Matches = <<q.MatchPhrase>>, !.Analyzer = q.Analyzer,
                                             !.BoostVal = q.BoostVal, !.FieldVal = q.FieldVal]

NewQueryTerm(term) == [variant |-> "Term", Term |-> term, FieldVal |-> "", BoostVal |-> None]

QueryTermQueryPlan(q) ==
    [QueryPlan(QueryTypeTerm) EXCEPT !.Matches = <<q.Term>>, !.BoostVal = q.BoostVal, !.FieldVal = q.FieldVal]

\* the setters, each the same assignment in every variant that has it
SetBoost(q, b) == [q EXCEPT !.BoostVal = Some(b)]

SetField(q, field) == [q EXCEPT !.FieldVal = field]

SetAnalyzer(q, analyzer) == [q EXCEPT !.Analyzer = analyzer]

SetFuzziness(q, fuzz) == [q EXCEPT !.Fuzziness = fuzz]

SetPrefix(q, prefix) == [q EXCEPT !.Prefix = prefix]

\* an unset inclusivity flag stands for the variant's default
FlagOr(flag, default) == IF flag = None THEN default ELSE flag[1]

NewQueryDataRange(start, end) ==
    [variant |-> "DateRange", Start |-> start, End |-> end, InclusiveStart |-> None, InclusiveEnd |-> None,
     FieldVal |-> "", BoostVal |-> None]

SetInclusiveStart(q, b) == [q EXCEPT !.InclusiveStart = Some(b)]

SetInclusiveEnd(q, b) == [q EXCEPT !.InclusiveEnd = Some(b)]

\* the interval is half-open unless a flag was set
QueryDateRangeQueryPlan(q) ==
    [QueryPlan(QueryTypeDateRange) EXCEPT !.Min = Some([type |-> "time", v |-> q.Start]),
                                           !.Max = Some([type |-> "time", v |-> q.End]),
                                           !.InclusiveMin = FlagOr(q.InclusiveStart, TRUE),
                                           !.InclusiveMax = FlagOr(q.InclusiveEnd, FALSE),
                                           !.FieldVal = q.FieldVal, !.BoostVal = q.BoostVal]

NewQueryNumericRange ==
    [variant |-> "NumericRange", Min |-> None, Max |-> None, InclusiveMin |-> None, InclusiveMax |-> None,
     FieldVal |-> "", BoostVal |-> None]

SetMin(q, min) == [q EXCEPT !.Min = Some(min)]

SetMax(q, max) == [q EXCEPT !.Max = Some(max)]

SetInclusiveMin(q, b) == [q EXCEPT !.InclusiveMin = Some(b)]

SetInclusiveMax(q, b) == [q EXCEPT !.InclusiveMax = Some(b)]

\* a bound that was never set is an invalid NullFloat64
NullFloat64(bound) ==
    Some([type |-> "nullfloat64", v |-> [Float64 |-> IF bound = None THEN 0 ELSE bound[1], Valid |-> bound # None]])

QueryNumericRangeQueryPlan(q) ==
    [QueryPlan(QueryTypeNumericRange) EXCEPT !.Min = NullFloat64(q.Min), !.Max = NullFloat64(q.Max),
                                              !.InclusiveMin = FlagOr(q.InclusiveMin, TRUE),
                                              !.InclusiveMax = FlagOr(q.InclusiveMax, FALSE),
                                              !.FieldVal = q.FieldVal, !.BoostVal = q.BoostVal]

NewQueryPrefix(prefix) == [variant |-> "Prefix", Prefix |-> prefix, FieldVal |-> "", BoostVal |-> None]

QueryPrefixQueryPlan(q) ==
    [QueryPlan(QueryTypePrefix) EXCEPT !.Matches = <<q.Prefix>>, !.FieldVal = q.FieldVal, !.BoostVal = q.BoostVal]

NewQueryTermRange(min, max) ==
    [variant |-> "TermRange", Min |-> min, Max |-> max, InclusiveMin |-> None, InclusiveMax |-> None,
     FieldVal |-> "", BoostVal |-> None]

QueryTermRangeQueryPlan(q) ==
    [QueryPlan(QueryTypeTermRange) EXCEPT !.Min = Some([type |-> "string", v |-> q.Min]),
                                           !.Max = Some([type |-> "string", v |-> q.Max]),
                                           !.InclusiveMin = FlagOr(q.InclusiveMin, TRUE),
                                           !.InclusiveMax = FlagOr(q.InclusiveMax, FALSE),
                                           !.FieldVal = q.FieldVal, !.BoostVal = q.BoostVal]

\* q.QueryPlan() through the Query interface
PlanOf(q) ==
    CASE q.variant = "BoolField" -> QueryBoolFieldQueryPlan(q)
      [] q.variant = "Boolean" -> QueryBooleanQueryPlan(q)
      [] q.variant = "DateRange" -> QueryDateRangeQueryPlan(q)
      [] q.variant = "IDs" -> QueryIDsQueryPlan(q)
      [] q.variant = "Match" -> QueryMatchQueryPlan(q)
      [] q.variant = "MatchAll" -> QueryMatchAllQueryPlan(q)
      [] q.variant = "MatchNone" -> QueryMatchNoneQueryPlan(q)
      [] q.variant = "MatchPhrase" -> QueryMatchPhraseQueryPlan(q)
      [] q.variant = "NumericRange" -> QueryNumericRangeQueryPlan(q)
      [] q.variant = "Prefix" -> QueryPrefixQueryPlan(q)
      [] q.variant = "Term" -> QueryTermQueryPlan(q)
      [] q.variant = "TermRange" -> QueryTermRangeQueryPlan(q)

(***************************************************************************)
(* Query compiler                                                          *)
(***************************************************************************)
Panic(msg) == [kind |-> "panic", msg |-> msg]

IsPanic(n) == n.kind = "panic"

\* a boost of 1.0 written out when the plan has none
WithBoostDefault(n, qp) == [n EXCEPT !.boost = IF qp.BoostVal # None THEN Some(qp.BoostVal[1]) ELSE Some(1)]

\* q.SetBoost when qp.BoostVal != nil
WithBoost(n, qp) == IF qp.BoostVal # None THEN [n EXCEPT !.boost = Some(qp.BoostVal[1])] ELSE n

\* q.SetField when qp.FieldVal != ""
WithField(n, qp) == IF qp.FieldVal # "" THEN [n EXCEPT !.field = qp.FieldVal] ELSE n

newBoolFieldQuery(qp) ==
    WithBoost(WithField([kind |-> "bool_field", bool |-> qp.Bool, field |-> "", boost |-> None], qp), qp)

\* the two flags wired to each other's field
newDataRangeQuerySwapped(qp) ==
    WithBoost(WithField([kind |-> "date_range", start |-> BoundDate(qp.Min), end |-> BoundDate(qp.Max),
                         inclusiveStart |-> Some(qp.InclusiveMax), inclusiveEnd |-> Some(qp.InclusiveMin),
                         field |-> "", boost |-> None], qp), qp)

newDataRangeQuery(qp) ==
    WithBoost(WithField([kind |-> "date_range", start |-> BoundDate(qp.Min), end |-> BoundDate(qp.Max),
                         inclusiveStart |-> Some(qp.InclusiveMin), inclusiveEnd |-> Some(qp.InclusiveMax),
                         field |-> "", boost |-> None], qp), qp)

\* the fuzziness written only together with a prefix length
newMatchQueryCoupled(qp) ==
    IF Len(qp.Matches) = 0 THEN Panic(<<"index out of range">>)
    ELSE LET q0 == [kind |-> "match", match |-> qp.Matches[1], operator |-> qp.Operator,
                    field |-> "", analyzer |-> "", boost |-> None, prefix |-> 0, fuzziness |-> 0]
             q1 == WithField(q0, qp)
             q2 == IF qp.Analyzer # "" THEN [q1 EXCEPT !.analyzer = qp.Analyzer] ELSE q1
             q3 == WithBoost(q2, qp)
         IN  IF qp.Prefix > 0 THEN [q3 EXCEPT !.prefix = qp.Prefix, !.fuzziness = IF qp.Fuzziness > 0 THEN qp.Fuzziness ELSE 0]
             ELSE q3

newMatchQuery(qp) ==
    IF Len(qp.Matches) = 0 THEN Panic(<<"index out of range">>)
    ELSE LET q0 == [kind |-> "match", match |-> qp.Matches[1], operator |-> qp.Operator,
                    field |-> "", analyzer |-> "", boost |-> None, prefix |-> 0, fuzziness |-> 0]
             q1 == WithField(q0, qp)
             q2 == IF qp.Analyzer # "" THEN [q1 EXCEPT !.analyzer = qp.Analyzer] ELSE q1
             q3 == WithBoost(q2, qp)
             q4 == IF qp.Prefix > 0 THEN [q3 EXCEPT !.prefix = qp.Prefix] ELSE q3
         IN  IF qp.Fuzziness > 0 THEN [q4 EXCEPT !.fuzziness = qp.Fuzziness] ELSE q4

newMatchPhraseQuery(qp) ==
    IF Len(qp.Matches) = 0 THEN Panic(<<"index out of range">>)
    ELSE LET q0 == [kind |-> "match_phrase", matchPhrase |-> qp.Matches[1], field |-> "", analyzer |-> "", boost |-> None]
             q1 == WithField(q0, qp)
             q2 == IF qp.Analyzer # "" THEN [q1 EXCEPT !.analyzer = qp.Analyzer] ELSE q1
         IN  WithBoost(q2, qp)

\* a bound of 0 taken for no bound
newNumericRangeQueryZeroUnset(qp) ==
    LET nullMin == BoundNullFloat64(qp.Min)
        nullMax == BoundNullFloat64(qp.Max)
        min == IF nullMin.Valid /\ nullMin.Float64 # 0 THEN Some(nullMin.Float64) ELSE None
        max == IF nullMax.Valid /\ nullMax.Float64 # 0 THEN Some(nullMax.Float64) ELSE None
    IN  WithBoost(WithField([kind |-> "numeric_range", min |-> min, max |-> max,
                             inclusiveMin |-> Some(qp.InclusiveMin), inclusiveMax |-> Some(qp.InclusiveMax),
                             field |-> "", boost |-> None], qp), qp)

newNumericRangeQuery(qp) ==
    LET nullMin == BoundNullFloat64(qp.Min)
        nullMax == BoundNullFloat64(qp.Max)
        min == IF nullMin.Valid THEN Some(nullMin.Float64) ELSE None
        max == IF nullMax.Valid THEN Some(nullMax.Float64) ELSE None
    IN  WithBoost(WithField([kind |-> "numeric_range", min |-> min, max |-> max,
                             inclusiveMin |-> Some(qp.InclusiveMin), inclusiveMax |-> Some(qp.InclusiveMax),
                             field |-> "", boost |-> None], qp), qp)

newPrefixQuery(qp) ==
    IF Len(qp.Matches) = 0 THEN Panic(<<"index out of range">>)
    ELSE WithField(WithBoost([kind |-> "prefix", prefix |-> qp.Matches[1], field |-> "", boost |-> None], qp), qp)

\* a term query that refuses a plan carrying clauses
newTermQueryStrict(qp) ==
    IF Len(qp.Matches) = 0 THEN Panic(<<"index out of range">>)
    ELSE IF Len(qp.Must) + Len(qp.Should) + Len(qp.MustNot) > 0 THEN Panic(<<"unexpected clauses">>)
    ELSE WithBoost([kind |-> "term", term |-> qp.Matches[1], field |-> qp.FieldVal, boost |-> None], qp)

newTermQuery(qp) ==
    IF Len(qp.Matches) = 0 THEN Panic(<<"index out of range">>)
    ELSE WithBoost([kind |-> "term", term |-> qp.Matches[1], field |-> qp.FieldVal, boost |-> None], qp)

\* the two flags left for the engine to default
newTermRangeQueryDefaulted(qp) ==
    WithField(WithBoost([kind |-> "term_range", min |-> BoundString(qp.Min), max |-> BoundString(qp.Max),
                         inclusiveMin |-> None, inclusiveMax |-> None,
                         field |-> "", boost |-> None], qp), qp)

newTermRangeQuery(qp) ==
    WithField(WithBoost([kind |-> "term_range", min |-> BoundString(qp.Min), max |-> BoundString(qp.Max),
                         inclusiveMin |-> Some(qp.InclusiveMin), inclusiveMax |-> Some(qp.InclusiveMax),
                         field |-> "", boost |-> None], qp), qp)

RECURSIVE convertQuery(_)

\* the clauses of Should lowered into the must-not group and those of
\* MustNot into the should group
newBoolQueryMisplaced(qp) ==
    LET must == [i \in 1..Len(qp.Must) |-> convertQuery(qp.Must[i])]
        should == [i \in 1..Len(qp.Should) |-> convertQuery(qp.Should[i])]
        mustNot == [i \in 1..Len(qp.MustNot) |-> convertQuery(qp.MustNot[i])]
        all == must \o should \o mustNot
        bad == {i \in 1..Len(all) : IsPanic(all[i])}
    IN  IF bad # {} THEN all[CHOOSE i \in bad : \A j \in bad : i <= j]
        ELSE WithBoost([kind |-> "boolean", must |-> must, should |-> mustNot, mustNot |-> should, boost |-> None], qp)

\* a clause that panics while being lowered unwinds the whole compilation
newBoolQuery(qp) ==
    LET must == [i \in 1..Len(qp.Must) |-> convertQuery(qp.Must[i])]
        should == [i \in 1..Len(qp.Should) |-> convertQuery(qp.Should[i])]
        mustNot == [i \in 1..Len(qp.MustNot) |-> convertQuery(qp.MustNot[i])]
        all == must \o should \o mustNot
        bad == {i \in 1..Len(all) : IsPanic(all[i])}
    IN  IF bad # {} THEN all[CHOOSE i \in bad : \A j \in bad : i <= j]
        ELSE WithBoost([kind |-> "boolean", must |-> must, should |-> should, mustNot |-> mustNot, boost |-> None], qp)

convertQuery(q) ==
    LET qp == q
    IN  CASE qp.Type = QueryTypeBoolField -> newBoolFieldQuery(qp)
          [] qp.Type = QueryTypeBoolean -> newBoolQuery(qp)
          [] qp.Type = QueryTypeDateRange -> newDataRangeQuery(qp)
          [] qp.Type = QueryTypeIDs -> WithBoost([kind |-> "ids", ids |-> qp.Matches, boost |-> None], qp)
          [] qp.Type = QueryTypeMatch -> newMatchQuery(qp)
          [] qp.Type = QueryTypeMatchAll -> WithBoost([kind |-> "match_all", boost |-> None], qp)
          [] qp.Type = QueryTypeMatchNone -> WithBoost([kind |-> "match_none", boost |-> None], qp)
          [] qp.Type = QueryTypeMatchPhrase -> newMatchPhraseQuery(qp)
          [] qp.Type = QueryTypeNumericRange -> newNumericRangeQuery(qp)
          [] qp.Type = QueryTypePrefix -> newPrefixQuery(qp)
          [] qp.Type = QueryTypeTerm -> newTermQuery(qp)
          [] qp.Type = QueryTypeTermRange -> newTermRangeQuery(qp)
          [] OTHER -> Panic(<<"unexpected query type: ">> \o QueryTypeName(qp.Type))

(***************************************************************************)
(* Result normalizer                                                       *)
(***************************************************************************)
\* sized from the source node instead: len(ex.Children) nil entries first
makeChildrenOfSource(newEx, ex) == [i \in 1..Len(ex.Children) |-> None]

\* make([]*search.Explanation, len(newEx.Children)): that many nil entries
makeChildren(newEx, ex) == [i \in 1..Len(newEx.Children) |-> None]

RECURSIVE convertExplanation(_)

convertExplanation(ex) ==
    IF ex = None THEN None
    ELSE LET src == ex[1]
             newEx == [Value |-> src.Value, Message |-> src.Message, Children |-> <<>>]
         IN  IF Len(src.Children) = 0 THEN Some(newEx)
             ELSE Some([newEx EXCEPT !.Children =
                          makeChildren(newEx, src) \o [i \in 1..Len(src.Children) |-> convertExplanation(src.Children[i])]])

convertHit(h) ==
    [Index |-> h.Index, ID |-> h.ID, Score |-> h.Score, Explanation |-> convertExplanation(h.Expl),
     Sort |-> h.Sort, Fields |-> h.Fields]

convertStatus(st) ==
    IF st # None THEN Some([Total |-> st[1].Total, Failed |-> st[1].Failed, Successful |-> st[1].Successful]) ELSE None

\* the hits in ascending instead of the engine's order
convertSearchResultReversed(r) ==
    [MaxScore |-> r.MaxScore, Took |-> r.Took, Total |-> r.Total, Status |-> convertStatus(r.Status),
     Hits |-> [i \in 1..Len(r.Hits) |-> convertHit(r.Hits[Len(r.Hits) - i + 1])]]

convertSearchResult(r) ==
    [MaxScore |-> r.MaxScore, Took |-> r.Took, Total |-> r.Total, Status |-> convertStatus(r.Status),
     Hits |-> [i \in 1..Len(r.Hits) |-> convertHit(r.Hits[i])]]

(***************************************************************************)
(* The underlying engine (bleve), at the interface the facade uses         *)
(***************************************************************************)
\* bleve.NewSearchRequest: the first ten hits, no explanation
NewSearchRequest(n) == [Query |-> n, Size |-> 10, From |-> 0, Explain |-> FALSE]

\* req.Validate(): nil or an error, decided by the engine
ValidateOutcomes(req) == {None, Some(ValidationErr)}

NativeHit(id, rank, n) == [Index |-> "", ID |-> id, Score |-> n - rank + 1, Expl |-> None, Sort |-> <<>>, Fields |-> <<>>]

NativeResult(ranking, size) ==
    [Status |-> Some([Total |-> 1, Failed |-> 0, Successful |-> 1]),
     Hits |-> [i \in 1..Min2(size, Len(ranking)) |-> NativeHit(ranking[i], i, Len(ranking))],
     Total |-> Len(ranking), MaxScore |-> Len(ranking), Took |-> 1]

\* the least document first
RECURSIVE Ascending(_)
Ascending(m) ==
    IF m = {} THEN <<>>
    ELSE LET x == CHOOSE x \in m : \A y \in m : x <= y
         IN  <<x>> \o Ascending(m \ {x})

\* the orders in which the engine may rank the matching documents: any order
\* of a few documents, one order of many
Rankings(m) == IF Cardinality(m) <= MaxRanked THEN Perms(m) ELSE {Ascending(m)}

\* index.Search(req): an error, or the matching documents in ranking order;
\* match-all matches every stored document, match-none matches none, what
\* any other query matches is the engine's business
ExecuteOutcomes(stored, req) ==
    LET matches == IF req.Query.kind = "match_all" THEN {stored}
                   ELSE IF req.Query.kind = "match_none" THEN {{}}
                   ELSE SUBSET stored
    IN  {[res |-> None, err |-> Some(e)] : e \in EngineErrs}
        \cup {[res |-> Some(NativeResult(r, req.Size)), err |-> None] : r \in UNION {Rankings(m) : m \in matches}}

\* the terms of the model in lexicographic order
TermOrder == <<"", "3">>
TermRank(s) == CHOOSE i \in 1..Len(TermOrder) : TermOrder[i] = s

\* the bounds of a native range query as the engine reads them: a nil
\* number, the zero time and the empty term leave the side open
NativeLow(n) ==
    CASE n.kind = "numeric_range" -> n.min
      [] n.kind = "date_range" -> IF n.start = 0 THEN None ELSE Some(n.start)
      [] n.kind = "term_range" -> IF n.min = "" THEN None ELSE Some(TermRank(n.min))

NativeHigh(n) ==
    CASE n.kind = "numeric_range" -> n.max
      [] n.kind = "date_range" -> IF n.end = 0 THEN None ELSE Some(n.end)
      [] n.kind = "term_range" -> IF n.max = "" THEN None ELSE Some(TermRank(n.max))

NativeInclusiveMin(n) == IF n.kind = "date_range" THEN n.inclusiveStart ELSE n.inclusiveMin

NativeInclusiveMax(n) == IF n.kind = "date_range" THEN n.inclusiveEnd ELSE n.inclusiveMax

\* whether a document whose value is v matches the native range query n; a
\* flag the query leaves nil is inclusive for the lower bound and exclusive
\* for the upper one
InRange(n, v) ==
    LET lo == NativeLow(n)
        hi == NativeHigh(n)
        imin == IF NativeInclusiveMin(n) = None THEN TRUE ELSE NativeInclusiveMin(n)[1]
        imax == IF NativeInclusiveMax(n) = None THEN FALSE ELSE NativeInclusiveMax(n)[1]
    IN  /\ lo = None \/ v > lo[1] \/ (imin /\ v = lo[1])
        /\ hi = None \/ v < hi[1] \/ (imax /\ v = hi[1])

\* index.Index(id, data): nil or an error
SubmitOutcomes == {None} \cup {Some(e) : e \in EngineErrs}

(***************************************************************************)
(* The queries the callers search with                                     *)
(***************************************************************************)
LoweredTypes ==
    {QueryTypeBoolField, QueryTypeBoolean, QueryTypeDateRange, QueryTypeIDs, QueryTypeMatch, QueryTypeMatchAll,
     QueryTypeMatchNone, QueryTypeMatchPhrase, QueryTypeNumericRange, QueryTypePrefix, QueryTypeTerm, QueryTypeTermRange}

\* the enumeration's other members and one value on each side of it
UnloweredTypes == ((-1)..(QueryTypeWildcard + 1)) \ LoweredTypes

MatchAllQuery == QueryPlan(QueryTypeMatchAll)

MatchNoneQuery == QueryPlan(QueryTypeMatchNone)

TermQuery(term) == [QueryPlan(QueryTypeTerm) EXCEPT !.Matches = <<term>>]

RECURSIVE Nest(_, _)

\* q as a clause k Boolean queries deep, in a different group at each depth
Nest(q, k) ==
    IF k = 0 THEN q
    ELSE LET inner == Nest(q, k - 1)
         IN  [QueryPlan(QueryTypeBoolean) EXCEPT !.Must = IF k % 3 = 1 THEN <<MatchAllQuery, inner>> ELSE <<>>,
                                                 !.Should = IF k % 3 = 2 THEN <<inner>> ELSE <<>>,
                                                 !.MustNot = IF k % 3 = 0 THEN <<inner>> ELSE <<>>]

RECURSIVE HasUnlowered(_)

HasUnlowered(q) ==
    \/ q.Type \notin LoweredTypes
    \/ /\ q.Type = QueryTypeBoolean
       /\ \E cl \in {q.Must, q.Should, q.MustNot} : \E i \in 1..Len(cl) : HasUnlowered(cl[i])

SearchQueries ==
    {MatchAllQuery, MatchNoneQuery} \cup {Nest(TermQuery("bar"), k) : k \in 1..MaxNest}
    \cup {Nest(QueryPlan(t), k) : t \in UnloweredTypes, k \in 0..MaxNest}

(***************************************************************************)
(* Engine                                                                  *)
(***************************************************************************)
\* what matters of an IndexCfg: its Name, and whether bleve.New fails on its
\* Path and Mapping
IndexCfg == [Name : Names, Fails : BOOLEAN]

RestArgs(max) == UNION {[1..n -> IndexCfg] : n \in 0..max}

\* IndexCfg.Setup: the new underlying index is named by its position
Setup(cfg, i) == IF cfg.Fails THEN [index |-> None, err |-> Some(SetupErr(cfg))] ELSE [index |-> Some(i), err |-> None]

RECURSIVE setupLoopSkipping(_, _, _, _)

\* a loop that skips a configuration that fails to open
setupLoopSkipping(all, i, setupIndices, log) ==
    IF i > Len(all) THEN [engine |-> Some(setupIndices), err |-> None, opened |-> log]
    ELSE LET r == Setup(all[i], i)
         IN  IF r.err # None THEN setupLoopSkipping(all, i + 1, setupIndices, Append(log, i))
             ELSE setupLoopSkipping(all, i + 1, (all[i].Name :> r.index[1]) @@ setupIndices, Append(log, i))

RECURSIVE setupLoop(_, _, _, _)

\* the loop of NewEngine over all = append(rest, index), from position i on
setupLoop(all, i, setupIndices, log) ==
    IF i > Len(all) THEN [engine |-> Some(setupIndices), err |-> None, opened |-> log]
    ELSE LET r == Setup(all[i], i)
         IN  IF r.err # None THEN [engine |-> None, err |-> r.err, opened |-> Append(log, i)]
             ELSE setupLoop(all, i + 1, (all[i].Name :> r.index[1]) @@ setupIndices, Append(log, i))

\* the first argument opened first, ahead of rest
newEngineIndexFirst(index, rest) == setupLoop(<<index>> \o rest, 1, <<>>, <<>>)

\* what NewEngine(index, rest) returns, and the Setup calls it made
newEngine(index, rest) == setupLoop(Append(rest, index), 1, <<>>, <<>>)

NewEngine(index, rest) ==
    /\ engineState = "none"
    /\ LET r == newEngine(index, rest)
       IN  /\ engineState' = IF r.engine # None THEN "ok" ELSE "failed"
           /\ indices' = IF r.engine # None THEN r.engine[1] ELSE <<>>
           /\ newErr' = r.err
           /\ opened' = r.opened
           /\ docs' = [u \in 1..Len(r.opened) |-> {}]
    /\ newArgs' = Some([index |-> index, rest |-> rest])
    /\ UNCHANGED <<handles, listed, calls, aborted, arg, ret>>

\* an unknown name answered with an empty handle that latches nothing
\* a handle of a known name that carries an error as well
IndexHandleDoubled(name) ==
    IF name \in DOMAIN indices
    THEN [name |-> name, index |-> Some(indices[name]), err |-> Some(NoSuchIndexErr(name)), asked |-> name]
    ELSE [name |-> "", index |-> None, err |-> Some(NoSuchIndexErr(name)), asked |-> name]

IndexHandleUnlatched(name) ==
    IF name \in DOMAIN indices
    THEN [name |-> name, index |-> Some(indices[name]), err |-> None, asked |-> name]
    ELSE [name |-> "", index |-> None, err |-> None, asked |-> name]

\* the *Index that Engine.Index(name) allocates; asked records the argument
IndexHandle(name) ==
    IF name \in DOMAIN indices
    THEN [name |-> name, index |-> Some(indices[name]), err |-> None, asked |-> name]
    ELSE [name |-> "", index |-> None, err |-> Some(NoSuchIndexErr(name)), asked |-> name]

\* a lookup that remembers the unknown names in the engine's mapping
EngineIndexCaching(name) ==
    /\ engineState = "ok"
    /\ ~aborted
    /\ handles' = handles \cup {IndexHandle(name)}
    /\ indices' = IF name \in DOMAIN indices THEN indices ELSE (name :> 0) @@ indices
    /\ UNCHANGED <<engineState, newArgs, newErr, opened, docs, listed, calls, aborted, arg, ret>>

EngineIndex(name) ==
    /\ engineState = "ok"
    /\ ~aborted
    /\ handles' = handles \cup {IndexHandle(name)}
    /\ UNCHANGED <<engineState, newArgs, indices, newErr, opened, docs, listed, calls, aborted, arg, ret>>

\* a slice made with a length instead of a capacity: as many empty handles
\* ahead of the appended ones
EngineIndicesPreallocated ==
    /\ engineState = "ok"
    /\ ~aborted
    /\ \E order \in Perms(DOMAIN indices) :
          /\ listed' = Some([i \in 1..Len(order) |-> [name |-> "", index |-> None, err |-> None, asked |-> ""]]
                            \o [i \in 1..Len(order) |->
                                  [name |-> order[i], index |-> Some(indices[order[i]]), err |-> None, asked |-> order[i]]])
          /\ handles' = handles \cup {listed'[1][i] : i \in 1..Len(listed'[1])}
    /\ UNCHANGED <<engineState, newArgs, indices, newErr, opened, docs, calls, aborted, arg, ret>>

\* Engine.Indices(): one new handle per entry, in map iteration order
EngineIndices ==
    /\ engineState = "ok"
    /\ ~aborted
    /\ \E order \in Perms(DOMAIN indices) :
          /\ listed' = Some([i \in 1..Len(order) |->
                               [name |-> order[i], index |-> Some(indices[order[i]]), err |-> None, asked |-> order[i]]])
          /\ handles' = handles \cup {listed'[1][i] : i \in 1..Len(order)}
    /\ UNCHANGED <<engineState, newArgs, indices, newErr, opened, docs, calls, aborted, arg, ret>>

(***************************************************************************)
(* Index                                                                   *)
(***************************************************************************)
NoHandle == [name |-> "", index |-> None, err |-> None, asked |-> ""]

\* a caller that has no call in progress and has made none; unlowered tells
\* whether the query of the call has a type the compiler does not lower
\* the context a caller passes to its calls, and the one the engine runs a
\* call under when it is handed none
CallerCtx(c) == [owner |-> c]
Background == [owner |-> ""]

IdleCall ==
    [op |-> "idle", pc |-> "idle", h |-> NoHandle, unlowered |-> FALSE, req |-> None, steps |-> <<>>,
     nres |-> None, res |-> None, err |-> None, valErr |-> None, engineCalls |-> 0, engineErr |-> None,
     ctx |-> None, engineCtx |-> None]

CanCall(c) == ~aborted /\ calls[c].pc \in {"idle", "done"}

\* Index.Name()
Name(i) == i.name

\* Index.Index(ctx, id, data)
IndexIndex(c, i, id) ==
    /\ CanCall(c)
    /\ i \in handles
    /\ LET call == [IdleCall EXCEPT !.op = "Index", !.h = i, !.ctx = Some(CallerCtx(c))]
       IN  IF i.err # None
           THEN /\ calls' = [calls EXCEPT ![c] = [call EXCEPT !.pc = "done", !.err = i.err]]
                /\ UNCHANGED <<docs, aborted>>
           ELSE IF i.index = None
           THEN /\ calls' = [calls EXCEPT ![c] = [call EXCEPT !.pc = "panicked"]]
                /\ aborted' = TRUE
                /\ UNCHANGED docs
           ELSE \E out \in SubmitOutcomes :
                   /\ calls' = [calls EXCEPT ![c] = [call EXCEPT !.pc = "done", !.err = out, !.engineCalls = 1, !.engineCtx = Some(Background),
                                                                  !.engineErr = out, !.steps = <<"submit">>]]
                   /\ docs' = IF out = None THEN [docs EXCEPT ![i.index[1]] = @ \cup {id}] ELSE docs
                   /\ UNCHANGED aborted
    /\ UNCHANGED <<engineState, newArgs, indices, newErr, opened, handles, listed, arg, ret>>

\* Index.Search up to bleve.NewSearchRequest(convertQuery(q))
SearchCompile(c, i, q) ==
    /\ CanCall(c)
    /\ i \in handles
    /\ LET call == [IdleCall EXCEPT !.op = "Search", !.h = i, !.unlowered = HasUnlowered(q), !.ctx = Some(CallerCtx(c))]
           n == convertQuery(q)
       IN  IF i.err # None
           THEN /\ calls' = [calls EXCEPT ![c] = [call EXCEPT !.pc = "done", !.err = i.err]]
                /\ UNCHANGED aborted
           ELSE IF IsPanic(n)
           THEN /\ calls' = [calls EXCEPT ![c] = [call EXCEPT !.pc = "panicked", !.steps = <<"compile">>]]
                /\ aborted' = TRUE
           ELSE /\ calls' = [calls EXCEPT ![c] = [call EXCEPT !.pc = "compiled", !.steps = <<"compile">>,
                                                              !.req = Some(NewSearchRequest(n))]]
                /\ UNCHANGED aborted
    /\ UNCHANGED <<engineState, newArgs, indices, newErr, opened, docs, handles, listed, arg, ret>>

\* a validation whose error is noted but does not end the call
SearchValidateLenient(c) ==
    /\ ~aborted
    /\ calls[c].pc = "compiled"
    /\ \E v \in ValidateOutcomes(calls[c].req[1]) :
          calls' = [calls EXCEPT ![c] = [@ EXCEPT !.pc = "validated", !.steps = Append(@, "validate"), !.valErr = v]]
    /\ UNCHANGED <<engineState, newArgs, indices, newErr, opened, docs, handles, listed, aborted, arg, ret>>

\* req.Validate() and the return on its error
SearchValidate(c) ==
    /\ ~aborted
    /\ calls[c].pc = "compiled"
    /\ \E v \in ValidateOutcomes(calls[c].req[1]) :
          calls' = [calls EXCEPT ![c] = IF v # None
                                        THEN [@ EXCEPT !.pc = "done", !.steps = Append(@, "validate"), !.valErr = v,
                                                       !.err = v, !.req = None]
                                        ELSE [@ EXCEPT !.pc = "validated", !.steps = Append(@, "validate")]]
    /\ UNCHANGED <<engineState, newArgs, indices, newErr, opened, docs, handles, listed, aborted, arg, ret>>

\* the engine's error wrapped in an error of the facade's own
\* the zero-hit error handed back next to the converted result
searchReturnBoth(call, out) ==
    IF out.err # None
    THEN [call EXCEPT !.pc = "done", !.req = None, !.steps = Append(@, "execute"), !.engineCalls = @ + 1,
                      !.engineCtx = Some(Background), !.engineErr = out.err, !.err = out.err]
    ELSE [call EXCEPT !.pc = "done", !.req = None, !.steps = @ \o <<"execute", "normalize">>, !.engineCalls = @ + 1,
                      !.engineCtx = Some(Background), !.nres = out.res, !.res = Some(convertSearchResult(out.res[1])),
                      !.err = IF out.res[1].Total = 0 THEN Some(NoResultsErr) ELSE None]

searchReturnWrapped(call, out) ==
    IF out.err # None
    THEN [call EXCEPT !.pc = "done", !.req = None, !.steps = Append(@, "execute"), !.engineCalls = @ + 1, !.engineCtx = Some(Background),
                      !.engineErr = out.err,
                      !.err = Some([kind |-> "search failed", text |-> <<"search failed: ">> \o out.err[1].text])]
    ELSE IF out.res[1].Total = 0
    THEN [call EXCEPT !.pc = "done", !.req = None, !.steps = Append(@, "execute"), !.engineCalls = @ + 1, !.engineCtx = Some(Background),
                      !.nres = out.res, !.err = Some(NoResultsErr)]
    ELSE [call EXCEPT !.pc = "done", !.req = None, !.steps = @ \o <<"execute", "normalize">>, !.engineCalls = @ + 1, !.engineCtx = Some(Background),
                      !.nres = out.res, !.res = Some(convertSearchResult(out.res[1]))]

\* what Index.Search returns once i.index.Search(req) has returned out
searchReturn(call, out) ==
    IF out.err # None
    THEN [call EXCEPT !.pc = "done", !.req = None, !.steps = Append(@, "execute"), !.engineCalls = @ + 1, !.engineCtx = Some(Background),
                      !.engineErr = out.err, !.err = out.err]
    ELSE IF out.res[1].Total = 0
    THEN [call EXCEPT !.pc = "done", !.req = None, !.steps = Append(@, "execute"), !.engineCalls = @ + 1, !.engineCtx = Some(Background),
                      !.nres = out.res, !.err = Some(NoResultsErr)]
    ELSE [call EXCEPT !.pc = "done", !.req = None, !.steps = @ \o <<"execute", "normalize">>, !.engineCalls = @ + 1, !.engineCtx = Some(Background),
                      !.nres = out.res, !.res = Some(convertSearchResult(out.res[1]))]

\* a second i.index.Search(req) when the first one fails
SearchExecuteRetry(c) ==
    /\ ~aborted
    /\ calls[c].pc = "validated"
    /\ LET i == calls[c].h
       IN  /\ i.index # None
           /\ \E out \in ExecuteOutcomes(docs[i.index[1]], calls[c].req[1]) :
                 IF out.err = None
                 THEN calls' = [calls EXCEPT ![c] = searchReturn(@, out)]
                 ELSE \E again \in ExecuteOutcomes(docs[i.index[1]], calls[c].req[1]) :
                         calls' = [calls EXCEPT ![c] = searchReturn([@ EXCEPT !.steps = Append(@, "execute"),
                                                                              !.engineCalls = @ + 1, !.engineCtx = Some(Background)], again)]
    /\ UNCHANGED <<engineState, newArgs, indices, newErr, opened, docs, handles, listed, aborted, arg, ret>>

\* i.index.Search(req) and the rest of Index.Search
SearchExecute(c) ==
    /\ ~aborted
    /\ calls[c].pc = "validated"
    /\ LET i == calls[c].h
       IN  IF i.index = None
           THEN /\ calls' = [calls EXCEPT ![c] = [@ EXCEPT !.pc = "panicked"]]
                /\ aborted' = TRUE
           ELSE /\ \E out \in ExecuteOutcomes(docs[i.index[1]], calls[c].req[1]) :
                      calls' = [calls EXCEPT ![c] = searchReturn(@, out)]
                /\ UNCHANGED aborted
    /\ UNCHANGED <<engineState, newArgs, indices, newErr, opened, docs, handles, listed, arg, ret>>

(***************************************************************************)
(* Specifications of the facade                                            *)
(***************************************************************************)
\* no engine yet, no handle, no call
NoEngine ==
    /\ engineState = "none"
    /\ newArgs = None
    /\ indices = <<>>
    /\ newErr = None
    /\ opened = <<>>
    /\ docs = <<>>
    /\ handles = {}
    /\ listed = None
    /\ calls = [c \in Callers |-> IdleCall]
    /\ aborted = FALSE

\* construction and lookup, from before NewEngine
InitEngine ==
    /\ NoEngine
    /\ arg = None
    /\ ret = None

NextEngine ==
    \/ \E index \in IndexCfg, rest \in RestArgs(MaxRest) : NewEngine(index, rest)
    \/ \E name \in Names : EngineIndex(name)
    \/ EngineIndices

SpecEngine == InitEngine /\ [][NextEngine]_vars

\* concurrent callers of an engine that NewEngine has returned
Init ==
    /\ \E index \in IndexCfg, rest \in RestArgs(MaxInitRest) :
          LET r == newEngine(index, rest)
          IN  /\ r.engine # None
              /\ engineState = "ok"
              /\ indices = r.engine[1]
              /\ newErr = r.err
              /\ opened = r.opened
              /\ docs = [u \in 1..Len(r.opened) |-> {}]
              /\ newArgs = Some([index |-> index, rest |-> rest])
    /\ handles = {}
    /\ listed = None
    /\ calls = [c \in Callers |-> IdleCall]
    /\ aborted = FALSE
    /\ arg = None
    /\ ret = None

Next ==
    \/ \E name \in Names : EngineIndex(name)
    \/ EngineIndices
    \/ \E c \in Callers, i \in handles, id \in DocIDs : IndexIndex(c, i, id)
    \/ \E c \in Callers, i \in handles, q \in SearchQueries : SearchCompile(c, i, q)
    \/ \E c \in Callers : SearchValidate(c)
    \/ \E c \in Callers : SearchExecute(c)

Spec == Init /\ [][Next]_vars

(***************************************************************************)
(* Specifications of the normalizer: convertExplanation on native          *)
(* explanations, convertSearchResult on native results                     *)
(***************************************************************************)
ExplLabels == {[Value |-> 1, Message |-> "sum of:"], [Value |-> 2, Message |-> "weight"]}

RECURSIVE ExplTrees(_), ExplForests(_)

\* the native explanations with exactly n nodes
ExplTrees(n) ==
    {[Value |-> l.Value, Message |-> l.Message, Children |-> f] : l \in ExplLabels, f \in ExplForests(n - 1)}

\* the sequences of children with n nodes in all
ExplForests(n) ==
    IF n = 0 THEN {<<>>}
    ELSE UNION {{<<Some(t)>> \o f : t \in ExplTrees(k), f \in ExplForests(n - k)} : k \in 1..n}

NativeExpls == {None} \cup {Some(t) : t \in UNION {ExplTrees(n) : n \in 1..MaxNodes}}

InitExplain ==
    /\ NoEngine
    /\ arg \in {Some(e) : e \in NativeExpls}
    /\ ret = None

Explain ==
    /\ ret = None
    /\ ret' = Some(convertExplanation(arg[1]))
    /\ UNCHANGED <<facadeVars, arg>>

NextExplain == Explain

SpecExplain == InitExplain /\ [][NextExplain]_vars

\* a hit carries no explanation or one of a node or two
HitExpls == {None} \cup {Some(t) : t \in ExplTrees(1) \cup ExplTrees(2)}

NativeHits ==
    {[Index |-> "base", ID |-> "d1", Score |-> 2, Expl |-> e, Sort |-> <<"k1">>, Fields |-> [title |-> "t1"]] : e \in HitExpls}
    \cup {[Index |-> "other", ID |-> "d2", Score |-> 1, Expl |-> e, Sort |-> <<>>, Fields |-> <<>>] : e \in HitExpls}

NativeResults ==
    {[Status |-> IF full THEN Some([Total |-> 3, Failed |-> 1, Successful |-> 2]) ELSE None,
      Hits |-> hs, Total |-> IF full THEN Len(hs) + 4 ELSE Len(hs), MaxScore |-> 9, Took |-> 7] :
        full \in BOOLEAN, hs \in UNION {[1..n -> NativeHits] : n \in 0..MaxHits}}

InitNormalize ==
    /\ NoEngine
    /\ arg \in {Some(r) : r \in NativeResults}
    /\ ret = None

Normalize ==
    /\ ret = None
    /\ ret' = Some(convertSearchResult(arg[1]))
    /\ UNCHANGED <<facadeVars, arg>>

NextNormalize == Normalize

SpecNormalize == InitNormalize /\ [][NextNormalize]_vars

(***************************************************************************)
(* One caller seeding an index with documents of distinct ids and          *)
(* searching it with MatchAll                                              *)
(***************************************************************************)
SeedIDs == 1..MaxSeed
SeedCfg == [Name |-> "base", Fails |-> FALSE]

InitSeed ==
    /\ LET r == newEngine(SeedCfg, <<>>)
       IN  /\ engineState = "ok"
           /\ indices = r.engine[1]
           /\ newErr = r.err
           /\ opened = r.opened
           /\ docs = [u \in 1..Len(r.opened) |-> {}]
           /\ newArgs = Some([index |-> SeedCfg, rest |-> <<>>])
    /\ handles = {IndexHandle(SeedCfg.Name)}
    /\ listed = None
    /\ calls = [c \in Callers |-> IdleCall]
    /\ aborted = FALSE
    /\ arg = None
    /\ ret = None

NextSeed ==
    \/ \E i \in handles : \E id \in SeedIDs \ docs[i.index[1]] : IndexIndex("c1", i, id)
    \/ \E i \in handles : SearchCompile("c1", i, MatchAllQuery)
    \/ SearchValidate("c1")
    \/ SearchExecute("c1")

SpecSeed == InitSeed /\ [][NextSeed]_vars

(***************************************************************************)
(* The compiler on the plans a Query may hand it                           *)
(***************************************************************************)
BoostVals == {None} \cup {Some(b) : b \in 0..MaxBoost}
FieldVals == {"", "nested.field"}
Analyzers == {"", "en"}
MatchTerms == {<<>>, <<"">>, <<"m">>}
Operators == {MatchQueryOperatorOr, MatchQueryOperatorAnd}
DateBounds == {None, Some([type |-> "time", v |-> 1]), Some([type |-> "string", v |-> "a"])}
NumericBounds ==
    {None, Some([type |-> "string", v |-> "a"])}
    \cup {Some([type |-> "nullfloat64", v |-> [Float64 |-> f, Valid |-> ok]]) : f \in 0..1, ok \in BOOLEAN}
TermBounds == {None, Some([type |-> "string", v |-> ""]), Some([type |-> "string", v |-> "3"]), Some([type |-> "time", v |-> 1])}

\* Min, Max and the two flags of a range plan
RangePlans(t, bounds) ==
    {[QueryPlan(t) EXCEPT !.Min = lo, !.Max = hi, !.InclusiveMin = imin, !.InclusiveMax = imax,
                          !.FieldVal = f, !.BoostVal = b] :
        lo \in bounds, hi \in bounds, imin \in BOOLEAN, imax \in BOOLEAN, f \in FieldVals, b \in BoostVals}

MatchPlans ==
    {[QueryPlan(QueryTypeMatch) EXCEPT !.Matches = m, !.Operator = op, !.FieldVal = f, !.Analyzer = a,
                                       !.BoostVal = b, !.Prefix = p, !.Fuzziness = z] :
        m \in MatchTerms, op \in Operators, f \in FieldVals, a \in Analyzers, b \in BoostVals,
        p \in (-1)..1, z \in (-1)..1}

\* plans of the types with a single match term
TermPlans(t) ==
    {[QueryPlan(t) EXCEPT !.Matches = m, !.FieldVal = f, !.Analyzer = a, !.BoostVal = b] :
        m \in MatchTerms, f \in FieldVals, a \in Analyzers, b \in BoostVals}

LeafPlans ==
    {[QueryPlan(t) EXCEPT !.BoostVal = b] : t \in {QueryTypeMatchAll, QueryTypeMatchNone}, b \in BoostVals}
    \cup {[QueryPlan(QueryTypeBoolField) EXCEPT !.Bool = v, !.FieldVal = f, !.BoostVal = b] :
            v \in BOOLEAN, f \in FieldVals, b \in BoostVals}
    \cup {[QueryPlan(QueryTypeIDs) EXCEPT !.Matches = ids, !.BoostVal = b] :
            ids \in {<<>>, <<"d1">>, <<"d2", "d1">>}, b \in BoostVals}

\* a Boolean plan's clauses, each a Query in its own right
ClauseLists ==
    {<<>>, <<MatchAllQuery>>, <<TermQuery("m"), [MatchNoneQuery EXCEPT !.BoostVal = Some(0)]>>,
     <<[QueryPlan(QueryTypeBoolean) EXCEPT !.MustNot = <<TermQuery("n")>>]>>}

BooleanPlans ==
    {[QueryPlan(QueryTypeBoolean) EXCEPT !.Must = must, !.Should = should, !.MustNot = mustNot, !.BoostVal = b] :
        must \in ClauseLists, should \in ClauseLists, mustNot \in ClauseLists, b \in BoostVals}

CompilePlans ==
    LeafPlans \cup BooleanPlans \cup MatchPlans
    \cup TermPlans(QueryTypeMatchPhrase) \cup TermPlans(QueryTypePrefix) \cup TermPlans(QueryTypeTerm)
    \cup RangePlans(QueryTypeDateRange, DateBounds)
    \cup RangePlans(QueryTypeNumericRange, NumericBounds)
    \cup RangePlans(QueryTypeTermRange, TermBounds)

InitCompile ==
    /\ NoEngine
    /\ arg \in {Some(qp) : qp \in CompilePlans}
    /\ ret = None

Compile ==
    /\ ret = None
    /\ ret' = Some(convertQuery(arg[1]))
    /\ UNCHANGED <<facadeVars, arg>>

NextCompile == Compile

SpecCompile == InitCompile /\ [][NextCompile]_vars

(***************************************************************************)
(* The compiler on two plans of one type that differ only in the fields    *)
(* the type gives no meaning to                                            *)
(***************************************************************************)
PlanFields == DOMAIN QueryPlan(QueryTypeUnknown)

\* the fields the variant of the given type puts in its plan
Meaningful(t) ==
    {"Type", "BoostVal"} \cup
    CASE t = QueryTypeBoolField -> {"Bool", "FieldVal"}
      [] t = QueryTypeBoolean -> {"Should", "Must", "MustNot"}
      [] t = QueryTypeIDs -> {"Matches"}
      [] t = QueryTypeMatch -> {"Matches", "Analyzer", "FieldVal", "Prefix", "Fuzziness", "Operator"}
      [] t = QueryTypeMatchPhrase -> {"Matches", "Analyzer", "FieldVal"}
      [] t \in {QueryTypeTerm, QueryTypePrefix} -> {"Matches", "FieldVal"}
      [] t \in {QueryTypeDateRange, QueryTypeNumericRange, QueryTypeTermRange} ->
            {"Min", "Max", "InclusiveMin", "InclusiveMax", "FieldVal"}
      [] OTHER -> {}

\* what the other fields may hold: nothing, or something in every field
Junks ==
    {QueryPlan(QueryTypeUnknown),
     [Type |-> QueryTypeUnknown, Should |-> <<MatchAllQuery>>, Must |-> <<TermQuery("x")>>,
      MustNot |-> <<QueryPlan(QueryTypeWildcard)>>, Analyzer |-> "junk", BoostVal |-> Some(1), FieldVal |-> "junk",
      Bool |-> TRUE, Matches |-> <<"junk", "more">>, Fuzziness |-> 2, Operator |-> MatchQueryOperatorAnd,
      Prefix |-> 3, Terms |-> <<<<"junk">>>>, Min |-> Some([type |-> "string", v |-> "junk"]),
      Max |-> Some([type |-> "time", v |-> 9]), InclusiveMin |-> TRUE, InclusiveMax |-> TRUE]}

\* the plan qp with the fields its type gives no meaning to taken from junk
Overlay(qp, junk) == [f \in PlanFields |-> IF f \in Meaningful(qp.Type) THEN qp[f] ELSE junk[f]]

\* the plans a builder could have made: a first match term where one is read
WellFormedPlans ==
    {qp \in CompilePlans :
        qp.Type \in {QueryTypeMatch, QueryTypeMatchPhrase, QueryTypePrefix, QueryTypeTerm} => qp.Matches # <<>>}

InitPair ==
    /\ NoEngine
    /\ arg \in {Some(<<Overlay(qp, j1), Overlay(qp, j2)>>) : qp \in WellFormedPlans, j1 \in Junks, j2 \in Junks}
    /\ ret = None

CompilePair ==
    /\ ret = None
    /\ ret' = Some(<<convertQuery(arg[1][1]), convertQuery(arg[1][2])>>)
    /\ UNCHANGED <<facadeVars, arg>>

NextPair == CompilePair

SpecPair == InitPair /\ [][NextPair]_vars

(***************************************************************************)
(* A query built with its constructor and setters, asked for its plan and  *)
(* compiled                                                                *)
(***************************************************************************)
Terms == {"", "m"}
Floats == (-1)..1
Dates == 1..2

NewQueries ==
    {NewQueryBoolField(b) : b \in BOOLEAN}
    \cup {NewQueryBoolean, NewQueryMatchAll, NewQueryMatchNone, NewQueryNumericRange}
    \cup {NewQueryIDs(ids) : ids \in {<<>>, <<"d1">>}}
    \cup {NewQueryMatch(m) : m \in Terms}
    \cup {NewQueryMatchPhrase(m) : m \in Terms}
    \cup {NewQueryTerm(m) : m \in Terms}
    \cup {NewQueryPrefix(m) : m \in Terms}
    \cup {NewQueryDataRange(start, end) : start \in Dates, end \in Dates}

NewTermRanges == {NewQueryTermRange(min, max) : min \in {"", "3"}, max \in {"", "3"}}

\* the variants that have the setter
WithSetBoost == {"BoolField", "Boolean", "IDs", "Match", "MatchAll", "MatchNone", "MatchPhrase", "Term"}
WithSetField == {"BoolField", "Match", "MatchPhrase", "Term", "DateRange", "Prefix", "TermRange", "NumericRange"}
WithSetAnalyzer == {"Match", "MatchPhrase"}

\* what has happened to the instance since it was constructed: the last boost
\* given to SetBoost, the clauses added and the group each was added to, the
\* plans returned since the last setter, the instance as the first of them
\* found it, and the last plan compiled
NoHistory == [boost |-> None, adds |-> <<>>, plans |-> <<>>, before |-> None, node |-> None]

InitBuild ==
    /\ NoEngine
    /\ \/ arg \in {Some(q) : q \in NewQueries}
       \/ arg \in {Some(q) : q \in NewTermRanges}
    /\ ret = Some(NoHistory)

\* a setter leaves the instance q behind
Configured(q, boost) ==
    /\ arg' = Some(q)
    /\ ret' = Some([NoHistory EXCEPT !.boost = boost, !.adds = ret[1].adds])
    /\ UNCHANGED facadeVars

\* AddMust, AddShould or AddMustNot leaves the instance q behind
Added(q, group, clauses) ==
    /\ arg' = Some(q)
    /\ ret' = Some([NoHistory EXCEPT !.boost = ret[1].boost,
                                     !.adds = ret[1].adds \o [i \in 1..Len(clauses) |-> [group |-> group, q |-> clauses[i]]]])
    /\ UNCHANGED facadeVars

CallSetBoost ==
    /\ arg[1].variant \in WithSetBoost
    /\ \E b \in 0..MaxBoost : Configured(SetBoost(arg[1], b), Some(b))

CallSetField ==
    /\ arg[1].variant \in WithSetField
    /\ \E f \in FieldVals : Configured(SetField(arg[1], f), ret[1].boost)

CallSetAnalyzer ==
    /\ arg[1].variant \in WithSetAnalyzer
    /\ \E a \in Analyzers : Configured(SetAnalyzer(arg[1], a), ret[1].boost)

CallSetFuzziness ==
    /\ arg[1].variant = "Match"
    /\ \E z \in (-1)..1 : Configured(SetFuzziness(arg[1], z), ret[1].boost)

CallSetPrefix ==
    /\ arg[1].variant = "Match"
    /\ \E z \in (-1)..1 : Configured(SetPrefix(arg[1], z), ret[1].boost)

\* what is added in one call: a leaf, or a Boolean query with a clause of its own
AddedClauses ==
    {<<MatchAllQuery>>, <<TermQuery("m")>>, <<PlanOf(AddMustNot(NewQueryBoolean, <<TermQuery("n")>>))>>}

CallAdd ==
    /\ arg[1].variant = "Boolean"
    /\ Len(arg[1].Must) + Len(arg[1].Should) + Len(arg[1].MustNot) < MaxClauses
    /\ \E cl \in AddedClauses :
          \/ Added(AddMust(arg[1], cl), "must", cl)
          \/ Added(AddShould(arg[1], cl), "should", cl)
          \/ Added(AddMustNot(arg[1], cl), "mustNot", cl)

CallSetBound ==
    /\ arg[1].variant = "NumericRange"
    /\ \E f \in Floats :
          \/ Configured(SetMin(arg[1], f), ret[1].boost)
          \/ Configured(SetMax(arg[1], f), ret[1].boost)

CallSetInclusive ==
    \E b \in BOOLEAN :
        \/ /\ arg[1].variant \in {"NumericRange", "TermRange"}
           /\ \/ Configured(SetInclusiveMin(arg[1], b), ret[1].boost)
              \/ Configured(SetInclusiveMax(arg[1], b), ret[1].boost)
        \/ /\ arg[1].variant = "DateRange"
           /\ \/ Configured(SetInclusiveStart(arg[1], b), ret[1].boost)
              \/ Configured(SetInclusiveEnd(arg[1], b), ret[1].boost)

\* a getter that hands the boost over to the plan and forgets it
CallQueryPlanConsuming ==
    /\ Len(ret[1].plans) < 2
    /\ ret' = Some([ret[1] EXCEPT !.plans = Append(@, PlanOf(arg[1])),
                                  !.before = IF ret[1].plans = <<>> THEN arg ELSE @])
    /\ arg' = Some([arg[1] EXCEPT !.BoostVal = None])
    /\ UNCHANGED facadeVars

\* q.QueryPlan(): the struct literal built from q's fields
CallQueryPlan ==
    /\ Len(ret[1].plans) < 2
    /\ ret' = Some([ret[1] EXCEPT !.plans = Append(@, PlanOf(arg[1])),
                                  !.before = IF ret[1].plans = <<>> THEN arg ELSE @])
    /\ arg' = arg
    /\ UNCHANGED facadeVars

\* convertQuery(q) on the instance as it is
CompileBuilt ==
    /\ ret[1].plans # <<>>
    /\ ret[1].node = None
    /\ ret' = Some([ret[1] EXCEPT !.node = Some(convertQuery(PlanOf(arg[1])))])
    /\ UNCHANGED <<facadeVars, arg>>

NextBuild ==
    \/ CallSetBoost
    \/ CallSetField
    \/ CallSetAnalyzer
    \/ CallSetFuzziness
    \/ CallSetPrefix
    \/ CallAdd
    \/ CallSetBound
    \/ CallSetInclusive
    \/ CallQueryPlan
    \/ CompileBuilt

SpecBuild == InitBuild /\ [][NextBuild]_vars

(***************************************************************************)
(* Properties                                                              *)
(***************************************************************************)
IsPrefix(s, t) == Len(s) <= Len(t) /\ s = SubSeq(t, 1, Len(s))

Returned(c, op) == calls[c].op = op /\ calls[c].pc = "done"

Unknown(i) == i.asked \notin DOMAIN indices

\* C1: a Search whose query the engine executed successfully with zero
\* matching documents returns a nil error and a non-nil Result with no hits
\* and Total 0.
C1_ZeroHitsIsSuccess ==
    \A c \in Callers :
        (Returned(c, "Search") /\ calls[c].nres # None /\ calls[c].nres[1].Total = 0)
            => /\ calls[c].err = None
               /\ calls[c].res # None
               /\ calls[c].res[1].Hits = <<>>
               /\ calls[c].res[1].Total = 0

\* C2: a Search with a query of a type the compiler does not lower, at the
\* top level or as a nested clause, returns an error and never panics.
C2_UnloweredIsReported ==
    \A c \in Callers :
        (calls[c].op = "Search" /\ calls[c].unlowered)
            => /\ calls[c].pc # "panicked"
               /\ calls[c].pc = "done" => (calls[c].err # None /\ calls[c].res = None)

\* C3: the handle of a name absent from the mapping latches the "no such
\* index" error, and every Index and Search call on it returns that error
\* without compiling, submitting or executing anything and without a panic.
C3_UnknownIndexLatched ==
    /\ \A i \in handles : Unknown(i) => i.err = Some(NoSuchIndexErr(i.asked))
    /\ \A c \in Callers :
          (calls[c].op # "idle" /\ Unknown(calls[c].h))
              => /\ calls[c].pc = "done"
                 /\ calls[c].err = Some(NoSuchIndexErr(calls[c].h.asked))
                 /\ calls[c].res = None
                 /\ calls[c].steps = <<>>
                 /\ calls[c].engineCalls = 0

C3_Witness ==
    /\ Returned("c1", "Search") /\ Unknown(calls["c1"].h) /\ calls["c1"].unlowered
    /\ Returned("c2", "Index") /\ Unknown(calls["c2"].h)

\* C4: when Execute fails, Search returns a nil Result and exactly the
\* engine's error; when Submit fails, Index returns exactly the engine's error.
C4_EngineErrorVerbatim ==
    \A c \in Callers :
        calls[c].engineErr # None
            => /\ calls[c].pc = "done"
               /\ calls[c].err = calls[c].engineErr
               /\ calls[c].err[1] \in EngineErrs
               /\ calls[c].res = None

C4_Witness ==
    /\ Returned("c1", "Search") /\ calls["c1"].engineErr # None
    /\ Returned("c2", "Index") /\ calls["c2"].engineErr # None

\* C5: NewEngine returns an Engine only if every configuration opened; when
\* one fails it returns no Engine and that error, opens nothing after the
\* failing configuration, and never returns a partial Engine.
C5_NoPartialEngine ==
    engineState # "none" =>
        LET all == Append(newArgs[1].rest, newArgs[1].index)
            failing == {i \in 1..Len(all) : all[i].Fails}
        IN  /\ engineState = "ok" <=> failing = {}
            /\ engineState = "ok" =>
                  /\ newErr = None
                  /\ DOMAIN indices = {all[i].Name : i \in 1..Len(all)}
                  /\ opened = [i \in 1..Len(all) |-> i]
            /\ engineState = "failed" =>
                  LET k == CHOOSE i \in failing : \A j \in failing : i <= j
                  IN  /\ newErr = Some(SetupErr(all[k]))
                      /\ opened = [i \in 1..k |-> i]
                      /\ indices = <<>>

C5_Witness ==
    /\ engineState = "failed"
    /\ Len(opened) > 1
    /\ Len(opened) < Len(newArgs[1].rest) + 1

\* C6: within one Search the steps run in the order compile, validate,
\* execute, normalize; Execute runs only after validation succeeded, and a
\* validation failure is returned with a nil Result without any Execute.
C6_SearchStepOrder ==
    \A c \in Callers :
        calls[c].op = "Search" =>
            /\ IsPrefix(calls[c].steps, <<"compile", "validate", "execute", "normalize">>)
            /\ calls[c].engineCalls > 0 => (calls[c].valErr = None /\ Len(calls[c].steps) >= 3)
            /\ calls[c].res # None => Len(calls[c].steps) = 4
            /\ calls[c].valErr # None =>
                  /\ calls[c].pc = "done"
                  /\ calls[c].err = calls[c].valErr
                  /\ calls[c].res = None
                  /\ calls[c].engineCalls = 0
                  /\ calls[c].steps = <<"compile", "validate">>

C6_Witness ==
    /\ Returned("c1", "Search") /\ calls["c1"].valErr # None
    /\ Returned("c2", "Search") /\ calls["c2"].res # None

\* C7: a call invokes the engine at most once, and a failed engine call ends
\* the call with that failure, with no further engine invocation.
C7_NoRetry ==
    \A c \in Callers :
        /\ calls[c].engineCalls <= 1
        /\ Len(SelectSeq(calls[c].steps, LAMBDA st : st \in {"execute", "submit"})) = calls[c].engineCalls
        /\ calls[c].engineErr # None => (calls[c].pc = "done" /\ calls[c].engineCalls = 1 /\ calls[c].err # None)

C7_Witness ==
    /\ Returned("c1", "Search") /\ calls["c1"].engineErr # None /\ calls["c1"].engineCalls = 1
    /\ Returned("c2", "Index") /\ calls["c2"].engineCalls = 1 /\ calls["c2"].err = None

\* C8: once NewEngine has returned, no step of any interleaving of lookups,
\* Index and Search calls changes the mapping or a field of a handle.
C8_FacadeStateReadOnly ==
    [][/\ indices' = indices
       /\ handles \subseteq handles'
       /\ \A c \in Callers : calls[c].pc \in {"compiled", "validated"} => calls'[c].h = calls[c].h]_vars

C8_Witness ==
    /\ calls["c1"].op = "Search" /\ calls["c1"].pc = "validated"
    /\ Returned("c2", "Index") /\ calls["c2"].err = None
    /\ calls["c1"].h = calls["c2"].h
    /\ Cardinality(handles) > 1

\* C9: the Result has the hits of the native response in the same order,
\* each with the ID, Index, Score, Sort and Fields of its native hit, and
\* the native Total, MaxScore and Took.
C9_HitsPreserved ==
    ret # None =>
        LET r == arg[1]
            s == ret[1]
        IN  /\ Len(s.Hits) = Len(r.Hits)
            /\ \A i \in 1..Len(r.Hits) :
                  /\ s.Hits[i].ID = r.Hits[i].ID
                  /\ s.Hits[i].Index = r.Hits[i].Index
                  /\ s.Hits[i].Score = r.Hits[i].Score
                  /\ s.Hits[i].Sort = r.Hits[i].Sort
                  /\ s.Hits[i].Fields = r.Hits[i].Fields
            /\ s.Total = r.Total
            /\ s.MaxScore = r.MaxScore
            /\ s.Took = r.Took

C9_Witness ==
    /\ ret # None
    /\ Len(arg[1].Hits) = 2
    /\ arg[1].Hits[1].ID = "d2"
    /\ arg[1].Hits[2].ID = "d1"
    /\ arg[1].Total > 2

RECURSIVE SameExplanation(_, _)

\* dst is nil when src is; otherwise it has the Value, the Message and, child
\* by child, the children of src
SameExplanation(src, dst) ==
    IF src = None THEN dst = None
    ELSE /\ dst # None
         /\ dst[1].Value = src[1].Value
         /\ dst[1].Message = src[1].Message
         /\ Len(dst[1].Children) = Len(src[1].Children)
         /\ \A i \in 1..Len(src[1].Children) : SameExplanation(src[1].Children[i], dst[1].Children[i])

RECURSIVE Depth(_)

Depth(ex) ==
    IF ex = None THEN 0
    ELSE LET ds == {Depth(ex[1].Children[i]) : i \in 1..Len(ex[1].Children)}
         IN  1 + (IF ds = {} THEN 0 ELSE CHOOSE d \in ds : \A e \in ds : e <= d)

\* C10: the converted explanation is nil for a nil source, and otherwise has
\* at every node the source's Value and Message and the source's children,
\* as many and in the same order, at every depth.
C10_ExplanationCopied == ret # None => SameExplanation(arg[1], ret[1])

C10_Witness ==
    /\ ret # None
    /\ Depth(arg[1]) >= 3
    /\ Len(arg[1][1].Children) = 2
    /\ arg[1][1].Children[1] # arg[1][1].Children[2]


\* C11: a Search(MatchAll) that finds documents returns every document
\* submitted so far exactly once, however many there are
C11_MatchAllReturnsAll ==
    \A c \in Callers :
        (Returned(c, "Search") /\ calls[c].nres # None /\ calls[c].nres[1].Total > 0) =>
            /\ calls[c].res # None
            /\ {calls[c].res[1].Hits[k].ID : k \in 1..Len(calls[c].res[1].Hits)} = docs[calls[c].h.index[1]]
            /\ Len(calls[c].res[1].Hits) = Cardinality(docs[calls[c].h.index[1]])


\* the plan handed to the compiler and the native node it returned
Compiled == ret # None /\ ~IsPanic(ret[1])

\* C12: whatever the type, the native node carries the plan's boost when the
\* plan has one, a boost of 0 included, and carries no boost when it has none
C12_BoostVerbatim == Compiled => ret[1].boost = arg[1].BoostVal

C12_Witness ==
    /\ Compiled
    /\ arg[1].Type = QueryTypeNumericRange
    /\ arg[1].BoostVal = Some(0)
    /\ ret[1].boost = Some(0)


\* the plan the instance returned last
LastPlan == ret[1].plans[Len(ret[1].plans)]

\* C13: the plan of a variant that offers SetBoost has the boost last given
\* to SetBoost, a boost of 0 included, and none when SetBoost was never called
C13_SetBoostReachesPlan ==
    (arg[1].variant \in WithSetBoost /\ ret[1].plans # <<>>) => LastPlan.BoostVal = ret[1].boost

RangeVariants == {"DateRange", "NumericRange", "TermRange"}
BuiltRange == arg[1].variant \in RangeVariants /\ ret[1].node # None
BuiltInclusiveMin == IF arg[1].variant = "DateRange" THEN arg[1].InclusiveStart ELSE arg[1].InclusiveMin
BuiltInclusiveMax == IF arg[1].variant = "DateRange" THEN arg[1].InclusiveEnd ELSE arg[1].InclusiveMax

\* the interval has a lower (upper) bound and is not empty
HasLow == NativeLow(ret[1].node[1]) # None /\ (NativeHigh(ret[1].node[1]) # None => NativeLow(ret[1].node[1])[1] < NativeHigh(ret[1].node[1])[1])
HasHigh == NativeHigh(ret[1].node[1]) # None /\ (NativeLow(ret[1].node[1]) # None => NativeLow(ret[1].node[1])[1] < NativeHigh(ret[1].node[1])[1])

\* C15: a range query whose inclusivity setters were never called lowers to
\* an inclusive lower and an exclusive upper bound, so the lower bound's value
\* matches and the upper bound's does not; an upper flag set to true makes
\* the upper bound match and a lower flag set to false excludes the lower one
C15_RangeDefaults ==
    BuiltRange =>
        LET n == ret[1].node[1]
        IN  /\ BuiltInclusiveMin = None => NativeInclusiveMin(n) = Some(TRUE) /\ (HasLow => InRange(n, NativeLow(n)[1]))
            /\ BuiltInclusiveMax = None => NativeInclusiveMax(n) = Some(FALSE) /\ (HasHigh => ~InRange(n, NativeHigh(n)[1]))
            /\ (BuiltInclusiveMax = Some(TRUE) /\ HasHigh) => InRange(n, NativeHigh(n)[1])
            /\ (BuiltInclusiveMin = Some(FALSE) /\ HasLow) => ~InRange(n, NativeLow(n)[1])

C15_Witness ==
    /\ BuiltRange
    /\ arg[1].variant = "DateRange"
    /\ BuiltInclusiveMin = None
    /\ BuiltInclusiveMax = Some(TRUE)
    /\ HasLow
    /\ HasHigh
    /\ InRange(ret[1].node[1], 2)


\* C16: a numeric bound that was never set stays absent in the native query
\* and a bound set to 0 arrives as 0, so with a lower bound of 0 the value 0
\* matches under the default inclusivity and not once SetInclusiveMin(false)
\* was called
C16_ZeroBoundIsABound ==
    (arg[1].variant = "NumericRange" /\ ret[1].node # None) =>
        LET n == ret[1].node[1]
        IN  /\ n.min = arg[1].Min
            /\ n.max = arg[1].Max
            /\ (arg[1].Min = Some(0) /\ HasLow) =>
                  /\ arg[1].InclusiveMin = None => InRange(n, 0)
                  /\ arg[1].InclusiveMin = Some(FALSE) => ~InRange(n, 0)

C16_Witness ==
    /\ arg[1].variant = "NumericRange"
    /\ ret[1].node # None
    /\ arg[1].Min = Some(0)
    /\ arg[1].Max = None
    /\ arg[1].InclusiveMin = Some(FALSE)
    /\ ret[1].node[1].min = Some(0)
    /\ ret[1].node[1].max = None
    /\ ~InRange(ret[1].node[1], 0)
    /\ InRange(ret[1].node[1], 1)


\* C17: a plan of the Match, MatchPhrase, Term or Prefix builder has a first
\* match term and that term is not empty, whatever the constructor was given
C17_MatchTermNonEmpty ==
    (arg[1].variant \in {"Match", "MatchPhrase", "Term", "Prefix"} /\ ret[1].plans # <<>>) =>
        /\ Len(LastPlan.Matches) >= 1
        /\ LastPlan.Matches[1] # ""


\* the names NewEngine was configured with
ConfiguredNames == {newArgs[1].index.Name} \cup {newArgs[1].rest[i].Name : i \in 1..Len(newArgs[1].rest)}

\* C18: Indices() returns one handle for each configured name, none missing
\* and none twice, each with its name, that name's index and no error
C18_IndicesListsEveryName ==
    listed # None =>
        LET hs == listed[1]
        IN  /\ Len(hs) = Cardinality(ConfiguredNames)
            /\ {hs[i].name : i \in 1..Len(hs)} = ConfiguredNames
            /\ \A i, j \in 1..Len(hs) : hs[i].name = hs[j].name => i = j
            /\ \A i \in 1..Len(hs) :
                  /\ hs[i].name \in DOMAIN indices
                  /\ hs[i].index = Some(indices[hs[i].name])
                  /\ hs[i].err = None

C18_Witness ==
    /\ listed # None
    /\ Len(newArgs[1].rest) = 2
    /\ Len(listed[1]) = 2
    /\ listed[1][1].name = "other"


\* C19: the native range query has both inclusivity flags set, each to the
\* plan's flag of the same side, whatever the bounds, the field and the boost
C19_InclusivityVerbatim ==
    (Compiled /\ arg[1].Type \in {QueryTypeDateRange, QueryTypeNumericRange, QueryTypeTermRange}) =>
        /\ NativeInclusiveMin(ret[1]) = Some(arg[1].InclusiveMin)
        /\ NativeInclusiveMax(ret[1]) = Some(arg[1].InclusiveMax)

C19_Witness ==
    /\ Compiled
    /\ arg[1].Type = QueryTypeTermRange
    /\ ~arg[1].InclusiveMin
    /\ arg[1].InclusiveMax
    /\ arg[1].BoostVal = Some(0)
    /\ arg[1].FieldVal # ""
    /\ ret[1].inclusiveMin = Some(FALSE)
    /\ ret[1].inclusiveMax = Some(TRUE)

\* C20: the native match query has the plan's operator, the plan's analyzer
\* when that is not empty, its prefix length when positive and its fuzziness
\* when positive, each on its own; a NewQueryMatch(m) nothing was set on
\* compiles to an OR match on m with none of the three
C20_MatchKnobsIndependent ==
    (Compiled /\ arg[1].Type = QueryTypeMatch) =>
        /\ ret[1].match = arg[1].Matches[1]
        /\ ret[1].operator = arg[1].Operator
        /\ ret[1].analyzer = arg[1].Analyzer
        /\ ret[1].prefix = IF arg[1].Prefix > 0 THEN arg[1].Prefix ELSE 0
        /\ ret[1].fuzziness = IF arg[1].Fuzziness > 0 THEN arg[1].Fuzziness ELSE 0
        /\ \A m \in Terms :
              arg[1] = PlanOf(NewQueryMatch(m)) =>
                  ret[1] = [kind |-> "match", match |-> m, operator |-> MatchQueryOperatorOr, field |-> "",
                            analyzer |-> "", boost |-> None, prefix |-> 0, fuzziness |-> 0]

C20_Witness ==
    /\ Compiled
    /\ arg[1].Type = QueryTypeMatch
    /\ arg[1].Operator = MatchQueryOperatorAnd
    /\ arg[1].Analyzer = ""
    /\ arg[1].Prefix = 0
    /\ arg[1].Fuzziness = 1
    /\ ret[1].operator = MatchQueryOperatorAnd
    /\ ret[1].fuzziness = 1
    /\ ret[1].prefix = 0


\* the clauses added to the given group, in the order they were added
AddedTo(group) ==
    LET InGroup(e) == e.group = group
        picked == SelectSeq(ret[1].adds, InGroup)
    IN  [i \in 1..Len(picked) |-> picked[i].q]

\* each child of the native group is the lowering of the clause at its place
Lowers(children, clauses) ==
    /\ Len(children) = Len(clauses)
    /\ \A i \in 1..Len(clauses) :
          /\ children[i] = convertQuery(clauses[i])
          /\ clauses[i].Type = QueryTypeMatchAll => children[i].kind = "match_all"
          /\ clauses[i].Type = QueryTypeTerm => children[i].kind = "term" /\ children[i].term = clauses[i].Matches[1]
          /\ clauses[i].Type = QueryTypeBoolean =>
                /\ children[i].kind = "boolean"
                /\ Len(children[i].mustNot) = Len(clauses[i].MustNot)
                /\ Len(children[i].must) = 0

\* C21: each group of the native boolean query holds the lowered clauses that
\* were added to the group of the same name, as many and in the order they
\* were added, nested Boolean clauses included; a group nothing was added to
\* is compiled like any other
C21_ClausesKeepGroupAndOrder ==
    (arg[1].variant = "Boolean" /\ ret[1].node # None) =>
        /\ ret[1].node[1].kind = "boolean"
        /\ Lowers(ret[1].node[1].must, AddedTo("must"))
        /\ Lowers(ret[1].node[1].should, AddedTo("should"))
        /\ Lowers(ret[1].node[1].mustNot, AddedTo("mustNot"))

C21_Witness ==
    /\ arg[1].variant = "Boolean"
    /\ ret[1].node # None
    /\ Len(ret[1].adds) = 2
    /\ ret[1].adds[1].group = "should"
    /\ ret[1].adds[1].q.Type = QueryTypeBoolean
    /\ ret[1].adds[2].group = "mustNot"
    /\ ret[1].node[1].must = <<>>
    /\ Len(ret[1].node[1].should) = 1
    /\ ret[1].node[1].mustNot = <<convertQuery(TermQuery("m"))>>


\* C22: two plans of one type that agree on the fields meaningful for the
\* type compile to equal native queries, whatever their other fields hold,
\* and neither compilation panics
C22_TypeDeterminesFields ==
    (ret # None /\ arg[1][1].Type = arg[1][2].Type
                /\ \A f \in Meaningful(arg[1][1].Type) : arg[1][1][f] = arg[1][2][f]) =>
        /\ ret[1][1] = ret[1][2]
        /\ ~IsPanic(ret[1][1])
        /\ ~IsPanic(ret[1][2])

C22_Witness ==
    /\ ret # None
    /\ arg[1][1].Type = QueryTypeTerm
    /\ arg[1][1].Must = <<>>
    /\ arg[1][2].Must # <<>>
    /\ arg[1][2].Fuzziness = 2
    /\ arg[1][1].Matches = arg[1][2].Matches
    /\ ret[1][1] = ret[1][2]
    /\ ret[1][2].kind = "term"


\* C23: the engine invocation made for a call runs under the context that
\* was passed to the call
C23_ContextThreaded ==
    \A c \in Callers : calls[c].engineCalls > 0 => calls[c].engineCtx = calls[c].ctx


\* C24: the handle Engine.Index(name) returns reports the requested name,
\* whether the engine has an index of that name or not
C24_HandleBoundToName == \A i \in handles : Name(i) = i.asked

\* C25: a Search that returns hands back either a Result and no error or an
\* error and no Result, on every path
C25_ResultXorError ==
    \A c \in Callers : Returned(c, "Search") => ((calls[c].res # None) /= (calls[c].err # None))

C25_Witness ==
    /\ Returned("c1", "Search") /\ calls["c1"].res # None /\ calls["c1"].err = None
    /\ Returned("c2", "Search") /\ calls["c2"].res = None /\ calls["c2"].err = Some(NoResultsErr)

\* C26: every handle the engine has returned has either an underlying index
\* or a latched error, never both and never neither, also while calls run on
\* it, so no call panics for want of an underlying index
C26_IndexXorLatchedError ==
    /\ \A i \in handles : (i.index # None) /= (i.err # None)
    /\ listed # None => \A k \in 1..Len(listed[1]) : (listed[1][k].index # None) /= (listed[1][k].err # None)
    /\ \A c \in Callers :
          calls[c].op # "idle" =>
              /\ calls[c].h \in handles
              /\ calls[c].pc = "panicked" => calls[c].h.index # None
              /\ calls[c].engineCalls > 0 => calls[c].h.index # None

C26_Witness ==
    /\ \E i \in handles : i.err # None
    /\ listed # None
    /\ Returned("c1", "Index") /\ calls["c1"].engineCalls = 1
    /\ Returned("c2", "Search") /\ calls["c2"].h.err # None


\* C27: a successful NewEngine has opened rest[0], ..., rest[n-1], index in
\* that order and maps each name to the handle opened last under it, so the
\* first argument's name is bound to the first argument's handle, and
\* Indices() returns as many handles as there are distinct names
C27_LastOpenedWins ==
    engineState = "ok" =>
        LET all == Append(newArgs[1].rest, newArgs[1].index)
            LastOf(name) == CHOOSE i \in 1..Len(all) : all[i].Name = name /\ \A j \in 1..Len(all) : all[j].Name = name => j <= i
        IN  /\ opened = [i \in 1..Len(all) |-> i]
            /\ \A name \in DOMAIN indices : indices[name] = LastOf(name)
            /\ indices[newArgs[1].index.Name] = Len(all)
            /\ \A i \in handles : i.asked = newArgs[1].index.Name => i.index = Some(Len(all))
            /\ listed # None => Len(listed[1]) = Cardinality({all[i].Name : i \in 1..Len(all)})

C27_Witness ==
    /\ engineState = "ok"
    /\ Len(newArgs[1].rest) = 2
    /\ newArgs[1].rest[1].Name = newArgs[1].index.Name
    /\ newArgs[1].rest[2].Name # newArgs[1].index.Name
    /\ \E i \in handles : i.asked = newArgs[1].index.Name /\ i.index = Some(3)
    /\ \E i \in handles : i.asked = newArgs[1].rest[2].Name /\ i.index = Some(2)
    /\ listed # None
    /\ Len(listed[1]) = 2

====
